---- MODULE Spec2Model ----
(***************************************************************************)
(* Model of the short-clip pipeline of sorbitube-debug/aishort:            *)
(*   - the render session started by handleDownload                        *)
(*     (src/components/ShortsCreator.tsx), with the browser callbacks it   *)
(*     installs (metadata, seeked, timers, play(), frame callbacks,        *)
(*     MediaRecorder events);                                              *)
(*   - the frame sampler extractVideoFrames                                *)
(*     (src/components/VideoAnalyzer.tsx);                                 *)
(*   - the analysis step handleSubmit with the SRT input and parseSrt;     *)
(*   - the WAV encoder audioBufferToWav and the compositing step of        *)
(*     render, as functions applied to bounded inputs;                     *)
(*   - the preview player with its caption, the choice of the output       *)
(*     format and the video file input.                                    *)
(* Every browser callback is one action; the continuation of an await is   *)
(* part of the action that settles the awaited promise (microtasks run     *)
(* before the next task).                                                  *)
(***************************************************************************)
EXTENDS Integers, Sequences, FiniteSets, TLC

\* ---------------------------------------------------------------- bounds
MaxSessions == 2
    \* number of handleDownload calls that pass the guard
MaxTime == 3
    \* duration of the source video, in clock ticks
MaxChunk == 1
    \* largest size of the data a dataavailable event carries
MaxFrameCount == 2
    \* largest frameCount passed to extractVideoFrames
MaxSrtBlocks == 2
    \* most blocks of an SRT text given to parseSrt
MaxChannels == 3
    \* most channels of a buffer given to audioBufferToWav
MaxSamples == 3
    \* most samples per channel of such a buffer
MaxFrames == 2
    \* most sampled times of a run of the render loop
MaxFiles == 2
    \* the video files the user can choose from

Sessions == 1..MaxSessions

NULL == "null"

\* ------------------------------------------------------------- variables
VARIABLES
    videoFile,       \* useState videoFile: 0 is null, else the file chosen
    analysisResult,  \* useState analysisResult (present = FALSE is null)
    isRendering,     \* useState isRendering
    renderProgress,  \* useState renderProgress
    error,           \* useState error: NULL or the kind of message shown
    hasRVFC,         \* 'requestVideoFrameCallback' in videoElement
    sess,            \* the locals and callbacks of each handleDownload call
    lastCall,        \* what the last handleDownload invocation did
    smp,             \* the locals of the running extractVideoFrames call
    progressMessage, \* useState progressMessage: the text shown and the
                     \* percentage in it (sampling progress stream)
    isLoading,       \* useState isLoading
    srtFile,         \* useState srtFile (present = FALSE is null)
    useDynamicStyling, \* useState useDynamicStyling
    sub,             \* the locals of the running handleSubmit call
    parse,           \* the locals of a parseSrt call
    wav,             \* an audioBufferToWav call and the reading of its header
    comp,            \* two runs of the compositing step of render
    preview,         \* the preview player, its caption and the caption
                     \* step of the render loop
    enc,             \* the choice of the output format and the recorder
                     \* made with it
    fileLoads        \* the chosen files whose metadata is being loaded

vars == <<videoFile, analysisResult, isRendering, renderProgress, error,
          hasRVFC, sess, lastCall, smp, progressMessage, isLoading, srtFile,
          useDynamicStyling, sub, parse, wav, comp, preview, enc,
          fileLoads>>

renderVars == <<videoFile, analysisResult, isRendering, renderProgress,
                error, hasRVFC, sess, lastCall>>
samplerVars == <<smp, progressMessage>>
submitVars == <<isLoading, srtFile, useDynamicStyling, sub>>
funVars == <<parse, wav, comp, preview, enc, fileLoads>>

\* The clip windows an analysis can have stored (handleSubmit only checks
\* that both times are numbers).
ClipWindows ==
    { [present |-> TRUE, startTime |-> a, endTime |-> b,
       subtitles |-> <<>>] :
        a \in 0..1, b \in {MaxTime - 1} }

\* analysisResult === null
NoAnalysis ==
    [present |-> FALSE, startTime |-> 0, endTime |-> 0, subtitles |-> <<>>]

\* ------------------------------------------------- handleDownload locals
\* The state of a handleDownload call that has not been made yet.  pc is
\* "none" (not called), "awaitMeta", "awaitSeek", "awaitResume" (suspended
\* at that await), "started" (the try block has ended), "thrown" (the catch
\* block has run) or "gone" (ended, and its locals unreachable).  phase is
\* "Idle", "Seeking" (from the call to mediaRecorder.start()), "Recording",
\* "Finalizing" (from the stop of the recorder to the end of onstop and of
\* its timer), "Done" or "Failed".
NoSession ==
    [ pc           |-> "none",   \* position of the async body
      phase        |-> "Idle",   \* state of the RenderSession
      captured     |-> FALSE,    \* isRendering as the closure sees it
      startTime    |-> 0,        \* analysisResult.startTime of the closure
      endTime      |-> 0,        \* analysisResult.endTime of the closure
      videoUrl     |-> NULL,     \* NULL, "live", "revoked"
      videoElement |-> NULL,     \* NULL, "inDom", "removed"
      hasSrc       |-> FALSE,    \* the src attribute is set
      playing      |-> FALSE,
      currentTime  |-> 0,
      seeked       |-> FALSE,    \* the wait has received 'seeked'
      seekTimer    |-> FALSE,    \* the 100 ms fallback timer is armed
      audioCtx     |-> NULL,     \* NULL, "suspended", "running", "closed"
      source       |-> NULL,     \* NULL, "connected", "disconnected"
      stream       |-> NULL,     \* NULL, "live", "stopped"
      recorder     |-> NULL,     \* NULL, "inactive", "recording",
                                 \* "flushing", "stopping", "stopped"
      chunks       |-> <<>>,     \* sizes of the chunks pushed
      playTimer    |-> FALSE,    \* the 100 ms play timer is pending
      playPending  |-> FALSE,    \* play() has not settled
      frameCb      |-> FALSE,    \* a frame callback is scheduled
      animationFrameId |-> 0,    \* 0 is null
      finalizeTimer |-> FALSE,   \* the 1000 ms timer of onstop is pending
      delivered    |-> 0,        \* downloads triggered (a.click())
      cleanups     |-> 0,        \* calls of cleanup
      errors       |-> {},       \* the kinds of error given to setError
      observedStop |-> FALSE,    \* render returned at its first guard
      lastClipT    |-> -1,       \* clipT seen by the last render step
      emitted      |-> <<>> ]    \* values passed to setRenderProgress

Min(a, b) == IF a < b THEN a ELSE b

RECURSIVE SumSeq(_)
SumSeq(q) == IF q = <<>> THEN 0 ELSE Head(q) + SumSeq(Tail(q))

\* new Blob(chunks).size
BlobSize(chunks) == SumSeq(chunks)

\* Math.min(99, (currentTimeInClip / clipDuration) * 100), in whole percent
ProgressOf(clipT, clipDuration) ==
    Min(99, (clipT * 100) \div clipDuration)

\* cleanup() without the test of audioCtx.state: close() is called on a
\* closed context too.
cleanup_noStateTest(r) ==
    [ r EXCEPT
        !.frameCb      = IF r.animationFrameId # 0 THEN FALSE ELSE @,
        !.playing      = IF r.videoElement # NULL THEN FALSE ELSE @,
        !.hasSrc       = IF r.videoElement # NULL THEN FALSE ELSE @,
        !.videoElement = IF r.videoElement = "inDom" THEN "removed" ELSE @,
        !.source       = IF r.source # NULL THEN "disconnected" ELSE @,
        !.audioCtx     = IF r.audioCtx = NULL THEN @
                         ELSE IF r.audioCtx = "closed" THEN "closedTwice"
                         ELSE "closed",
        !.videoUrl     = IF r.videoUrl # NULL THEN "revoked" ELSE @,
        !.cleanups     = @ + 1 ]

\* cleanup() (lines 398-414): the locals after the call (setIsRendering(false)
\* is done by the calling action).
cleanup(r) ==
    [ r EXCEPT
        !.frameCb      = IF r.animationFrameId # 0 THEN FALSE ELSE @,
        !.playing      = IF r.videoElement # NULL THEN FALSE ELSE @,
        !.hasSrc       = IF r.videoElement # NULL THEN FALSE ELSE @,
        !.videoElement = IF r.videoElement = "inDom" THEN "removed" ELSE @,
        !.source       = IF r.source # NULL THEN "disconnected" ELSE @,
        !.audioCtx     = IF r.audioCtx \notin {NULL, "closed"}
                         THEN "closed" ELSE @,
        !.videoUrl     = IF r.videoUrl # NULL THEN "revoked" ELSE @,
        !.cleanups     = @ + 1 ]

\* The catch block of handleDownload.
catchBlock(r) ==
    [ r EXCEPT
        !.pc           = "thrown",
        !.phase        = "Failed",
        !.errors       = @ \cup {"download"},
        !.videoUrl     = IF r.videoUrl # NULL THEN "revoked" ELSE @,
        !.audioCtx     = IF r.audioCtx \notin {NULL, "closed"}
                         THEN "closed" ELSE @,
        !.videoElement = IF r.videoElement = "inDom" THEN "removed" ELSE @ ]

\* ---------------------------------------------- extractVideoFrames locals
\* The state before extractVideoFrames is called.  pc is "none",
\* "awaitCanplay", "awaitSeek", "resolved" or "rejected".
NoSampler ==
    [ pc         |-> "none",
      frameCount |-> 0,
      hasStarted |-> FALSE,
      duration   |-> 0,       \* video.duration, in ticks
      i          |-> 0,       \* the loop index
      seeks      |-> <<>>,    \* the values given to video.currentTime,
                              \* times frameCount
      frames     |-> <<>>,    \* the indices whose frame was pushed
      url        |-> NULL,    \* NULL, "live", "revoked"
      warned     |-> {},      \* the indices console.warn was called for
      emitted    |-> <<>>,    \* the values given to onProgress,
                              \* times frameCount
      passes     |-> 0,       \* the times the sampling loop was entered
      ignored    |-> FALSE,   \* while the call is pending: oncanplay has
                              \* returned at its guard
      settles    |-> 0,       \* the resolve and reject calls that settled
                              \* the promise
      pendingSeeked |-> {},   \* the seeks (loop indices) whose 'seeked'
                              \* event is still to be dispatched
      captures   |-> <<>> ]   \* per drawImage: the loop index and the seek
                              \* whose 'seeked' event let it run

\* ---------------------------------------------------- handleSubmit locals
\* srtFile === null; text is what srtFile.text() gives, a sequence of
\* tokens (see parseSrt below)
NoSrt == [present |-> FALSE, text |-> <<>>]

\* No answer of analyzeVideoForClipping yet.  kind is "none", "rejected"
\* (the call failed), "badJson" (JSON.parse throws) or "object";
\* startTime and endTime: num is typeof x === 'number'; subtitles.kind is
\* "absent", "notArray" or "array".
NoResponse ==
    [ kind      |-> "none",
      startTime |-> [num |-> FALSE, v |-> 0],
      endTime   |-> [num |-> FALSE, v |-> 0],
      subtitles |-> [kind |-> "absent", list |-> <<>>] ]

\* The state before handleSubmit is called.  pc is "none", "readSrt",
\* "awaitAudio", "awaitFrames", "awaitAnalysis", "done" (the try block
\* ended) or "failed" (the catch block ran).
NoSubmit ==
    [ pc                |-> "none",
      videoFile         |-> 0,       \* videoFile of the closure
      srtFile           |-> NoSrt,   \* srtFile of the closure
      useDynamicStyling |-> FALSE,   \* useDynamicStyling of the closure
      srtContent        |-> NoSrt,   \* present = FALSE is null
      audioData         |-> "unset", \* "unset", "null", "wav"
      audioFailed       |-> FALSE,   \* extractAudioFromVideo caught an error
      audioContext      |-> "none",  \* its AudioContext: "none", "open",
                                     \* "closed"
      apiCalled         |-> FALSE,   \* analyzeVideoForClipping was called
      flagSent          |-> FALSE,   \* its useDynamicStyling argument
      response          |-> NoResponse,
      failedAt          |-> "none" ] \* the await whose rejection was caught

\* ---------------------------------------------------- parseSrt locals
\* pc is "none", "loop" (in the for loop) or "returned".
NoParse ==
    [ pc        |-> "none",
      srtText   |-> <<>>,
      blocks    |-> <<>>,    \* the blocks the loop has not visited yet
      subtitles |-> <<>> ]

\* ----------------------------------------------- audioBufferToWav locals
\* No header read.
NoHeader ==
    [ riff        |-> <<>>,
      riffSize    |-> 0,
      wave        |-> <<>>,
      format      |-> 0,
      numChannels |-> 0,
      sampleRate  |-> 0,
      byteRate    |-> 0,
      blockAlign  |-> 0,
      bitDepth    |-> 0,
      dataSize    |-> 0 ]

\* pc is "none", "buffer" (an AudioBuffer is at hand), "encoded" or
\* "parsed".
NoWav ==
    [ pc          |-> "none",
      numChannels |-> 0,      \* buffer.numberOfChannels
      sampleRate  |-> 0,      \* buffer.sampleRate
      length      |-> 0,      \* buffer.length, samples per channel
      samples     |-> 0,      \* result.length, the samples encoded
      header      |-> <<>>,   \* the first 44 bytes written
      parsed      |-> NoHeader ]

\* ------------------------------------------------ render compositing step
\* The effect flags of the closure of handleDownload (lines 136-138).
StyleFlags ==
    [ useFadeTransition    : BOOLEAN,
      useKenBurns          : BOOLEAN,
      useSubtitleAnimation : BOOLEAN ]

\* One run of the render loop over the sampled times: i is the index of
\* the next sample, done is TRUE once render has returned without asking
\* for another frame, out holds the parameters of the frames seen.
NoRun == [i |-> 1, done |-> FALSE, out |-> <<>>]

\* pc is "none" or "running".
NoComp ==
    [ pc          |-> "none",
      isRendering |-> FALSE,  \* isRendering of the closure of render
      window      |-> NoAnalysis,
      style       |-> [useFadeTransition |-> TRUE, useKenBurns |-> TRUE,
                       useSubtitleAnimation |-> TRUE],
      ts          |-> <<>>,   \* the sampled values of currentTime, in ticks
      now         |-> 0,      \* the wall clock
      runs        |-> <<NoRun, NoRun>> ]

\* ------------------------------------------------- preview and caption
\* The preview player (videoRef), the caption shown over it and the static
\* style settings; drawn is what the caption step of the render loop last
\* put on the canvas.  Times are in ticks of 1/20 s, 0 for a caption index
\* is "no caption".
NoPreview ==
    [ currentTime      |-> 0,        \* videoRef.current.currentTime
      looked           |-> FALSE,    \* handleTimeUpdate has run
      lookupTime       |-> 0,        \* the currentTime it read
      activeSubtitle   |-> 0,        \* useState activeSubtitle
      fontSize         |-> 52,       \* useState fontSize (line 129)
      subtitlePosition |-> "bottom", \* useState subtitlePosition (line 133)
      drawn            |-> [ done |-> FALSE, time |-> 0, currentSub |-> 0,
                             fontSize |-> 0, position |-> "none" ] ]

\* ------------------------------------------------- output format choice
\* pc is "none", "selected" (mimeType found), "recording" (the recorder was
\* made and started) or "failed" (the constructor threw).
NoEnc ==
    [ pc        |-> "none",
      supported |-> {},       \* the types MediaRecorder.isTypeSupported accepts
      ctorOk    |-> TRUE,     \* nothing else makes the constructor throw
      mimeType  |-> "none",
      recorder  |-> "none",   \* "none", "recording"
      error     |-> NULL ]

\* The component with a video selected and an analysis stored (the state
\* in which the download button is shown, line 892), no render made yet
\* and no sampling run under way.
Init ==
    /\ videoFile = 1
    /\ analysisResult \in ClipWindows
    /\ isRendering = FALSE
    /\ renderProgress = 0
    /\ error = NULL
    /\ hasRVFC \in BOOLEAN
    /\ sess = [s \in Sessions |-> NoSession]
    /\ lastCall = "none"
    /\ smp = NoSampler
    /\ progressMessage = [text |-> "", percent |-> 0]
    /\ isLoading = FALSE
    /\ srtFile = NoSrt
    /\ useDynamicStyling = TRUE
    /\ sub = NoSubmit
    /\ parse = NoParse
    /\ wav = NoWav
    /\ comp = NoComp
    /\ preview = NoPreview
    /\ enc = NoEnc
    /\ fileLoads = {}

\* A call whose body has ended and that has no timer, promise, frame
\* callback or recorder event left to come: nothing refers to its locals.
Inert(r) ==
    /\ r.pc \in {"thrown", "started"}
    /\ ~r.playTimer /\ ~r.playPending /\ ~r.frameCb /\ ~r.finalizeTimer
    /\ r.recorder \notin {"recording", "flushing", "stopping"}

\* The locals of an ended call are dropped when the next call is made; what
\* is kept is how the session ended.
Gone(r) == [NoSession EXCEPT !.pc = "gone", !.phase = r.phase]

\* The next call that has not been made.
IsNext(s) ==
    /\ sess[s].pc = "none"
    /\ \A t \in Sessions : t < s => sess[t].pc # "none"

\* handleDownload, up to its first await (lines 288-329).
handleDownload(s) ==
    /\ IsNext(s)
    /\ IF videoFile = 0 \/ ~analysisResult.present \/ isRendering
       THEN /\ lastCall' = "ignored"
            /\ UNCHANGED <<isRendering, renderProgress, error, sess>>
       ELSE /\ lastCall' = "started"
            /\ isRendering' = TRUE
            /\ renderProgress' = 0
            /\ error' = NULL
            /\ sess' = [t \in Sessions |->
                 IF t = s
                 THEN [ NoSession EXCEPT
                          !.pc = "awaitMeta",
                          !.phase = "Seeking",
                          !.captured = isRendering,
                          !.startTime = analysisResult.startTime,
                          !.endTime = analysisResult.endTime,
                          !.videoUrl = "live",
                          !.videoElement = "inDom",
                          !.hasSrc = TRUE,
                          !.emitted = <<0>> ]
                 ELSE IF Inert(sess[t]) THEN Gone(sess[t]) ELSE sess[t]]
    /\ UNCHANGED <<videoFile, analysisResult, hasRVFC>>
    /\ UNCHANGED <<samplerVars, submitVars, funVars>>

\* Replace the locals of session s.
SetSess(s, r) == sess' = [sess EXCEPT ![s] = r]

\* The effect of an exception reaching the catch block (lines 583-592).
Thrown(s, r) ==
    /\ SetSess(s, catchBlock(r))
    /\ error' = "download"
    /\ isRendering' = FALSE
    /\ UNCHANGED renderProgress

\* Lines 357-581: from createMediaStreamDestination to the end of the try
\* block.  ctxOk: canvas.getContext returned a context; recOk: the
\* MediaRecorder constructor did not throw.
setupRecorder(s, r, ctxOk, recOk) ==
    LET r1 == [r EXCEPT !.source = "connected"]
        r2 == [r1 EXCEPT !.stream = "live"]
        r3 == [r2 EXCEPT !.recorder = "recording",
                         !.phase = "Recording",
                         !.playTimer = TRUE,
                         !.pc = "started"]
    IN  IF ~ctxOk THEN Thrown(s, r1)
        ELSE IF ~recOk THEN Thrown(s, r2)
        ELSE /\ SetSess(s, r3)
             /\ UNCHANGED <<error, isRendering, renderProgress>>

\* Lines 348-355: the code that runs when the seek wait is over.
afterSeekWait(s, r, suspended, ctxOk, recOk) ==
    IF suspended
    THEN /\ SetSess(s, [r EXCEPT !.audioCtx = "suspended",
                                 !.pc = "awaitResume"])
         /\ UNCHANGED <<error, isRendering, renderProgress>>
    ELSE setupRecorder(s, [r EXCEPT !.audioCtx = "running"], ctxOk, recOk)

\* videoElement.onloadedmetadata, then lines 331-346: the seek is started
\* and the wait installed.  canPlay: readyState >= 3.
onloadedmetadata(s) ==
    /\ sess[s].pc = "awaitMeta"
    /\ \E canPlay \in BOOLEAN :
         SetSess(s, [sess[s] EXCEPT
                       !.pc = "awaitSeek",
                       !.currentTime = Min(sess[s].startTime, MaxTime),
                       !.seekTimer = canPlay])
    /\ UNCHANGED <<videoFile, analysisResult, isRendering, renderProgress,
                   error, hasRVFC, lastCall>>
    /\ UNCHANGED <<samplerVars, submitVars, funVars>>

\* videoElement.onerror while the metadata is awaited (line 328).
onerror(s) ==
    /\ sess[s].pc = "awaitMeta"
    /\ Thrown(s, sess[s])
    /\ UNCHANGED <<videoFile, analysisResult, hasRVFC, lastCall>>
    /\ UNCHANGED <<samplerVars, submitVars, funVars>>

\* The 'seeked' event reaches the listener of the seek wait (onSeeked,
\* lines 336-339).  A 'seeked' event that comes after the fallback has ended
\* the wait only removes the listener and is not modelled.
onSeeked(s) ==
    /\ sess[s].pc = "awaitSeek"
    /\ \E suspended, ctxOk, recOk \in BOOLEAN :
         afterSeekWait(s, [sess[s] EXCEPT !.seeked = TRUE,
                                          !.seekTimer = FALSE],
                       suspended, ctxOk, recOk)
    /\ UNCHANGED <<videoFile, analysisResult, hasRVFC, lastCall>>
    /\ UNCHANGED <<samplerVars, submitVars, funVars>>

\* The fallback timer of the seek wait fires while the wait is pending
\* (line 344).  A timer that fires after 'seeked' has ended the wait calls
\* resolve without effect and is not modelled.
seekFallback(s) ==
    /\ sess[s].pc = "awaitSeek"
    /\ sess[s].seekTimer
    /\ \E suspended, ctxOk, recOk \in BOOLEAN :
         afterSeekWait(s, [sess[s] EXCEPT !.seekTimer = FALSE],
                       suspended, ctxOk, recOk)
    /\ UNCHANGED <<videoFile, analysisResult, hasRVFC, lastCall>>
    /\ UNCHANGED <<samplerVars, submitVars, funVars>>

\* audioCtx.resume() settles (line 354).
onResumed(s) ==
    /\ sess[s].pc = "awaitResume"
    /\ \E ctxOk, recOk \in BOOLEAN :
         setupRecorder(s, [sess[s] EXCEPT !.audioCtx = "running"],
                       ctxOk, recOk)
    /\ UNCHANGED <<videoFile, analysisResult, hasRVFC, lastCall>>
    /\ UNCHANGED <<samplerVars, submitVars, funVars>>

\* Scheduling of the next render step (lines 550-554 and 570-574).
scheduleFrame(r) ==
    [r EXCEPT !.frameCb = TRUE,
              !.animationFrameId = IF hasRVFC THEN @ ELSE 1]

\* The 100 ms timer of line 565 fires: play() is called (line 568).
playTimerFires(s) ==
    /\ sess[s].playTimer
    /\ SetSess(s, [sess[s] EXCEPT !.playTimer = FALSE,
                                  !.playPending = TRUE])
    /\ UNCHANGED <<videoFile, analysisResult, isRendering, renderProgress,
                   error, hasRVFC, lastCall>>
    /\ UNCHANGED <<samplerVars, submitVars, funVars>>

\* play() is fulfilled: the render loop is kicked off (lines 569-574).
playResolved(s) ==
    /\ sess[s].playPending
    /\ sess[s].hasSrc
    /\ SetSess(s, scheduleFrame([sess[s] EXCEPT !.playPending = FALSE,
                                                !.playing = TRUE]))
    /\ UNCHANGED <<videoFile, analysisResult, isRendering, renderProgress,
                   error, hasRVFC, lastCall>>
    /\ UNCHANGED <<samplerVars, submitVars, funVars>>

\* play() is rejected (lines 575-579).
playRejected(s) ==
    /\ sess[s].playPending
    /\ SetSess(s, cleanup([sess[s] EXCEPT !.playPending = FALSE,
                                          !.errors = @ \cup {"play"},
                                          !.phase = "Failed"]))
    /\ error' = "play"
    /\ isRendering' = FALSE
    /\ UNCHANGED <<videoFile, analysisResult, renderProgress, hasRVFC,
                   lastCall>>
    /\ UNCHANGED <<samplerVars, submitVars, funVars>>

\* One call of render by the frame callback (lines 444-555).  The media
\* clock has advanced to some position between the one last read and the
\* end of the source (videoElement.currentTime, line 447).
render(s) ==
    /\ sess[s].frameCb
    /\ \E now \in sess[s].currentTime..MaxTime :
       LET r0 == [sess[s] EXCEPT !.frameCb = FALSE]
           r == [r0 EXCEPT !.currentTime = now]
           currentTimeInClip == r.currentTime - r.startTime
           clipDuration == r.endTime - r.startTime
           ended == r.currentTime >= MaxTime
       IN  IF r.videoElement = NULL \/ ~r.captured
           THEN /\ SetSess(s, [r0 EXCEPT !.observedStop = TRUE])
                /\ UNCHANGED renderProgress
           ELSE IF currentTimeInClip >= clipDuration \/ ended
           THEN /\ SetSess(s, [r EXCEPT
                     !.lastClipT = currentTimeInClip,
                     !.recorder = IF @ = "recording" THEN "flushing" ELSE @,
                     !.phase = IF r.recorder = "recording"
                               THEN "Finalizing" ELSE @])
                /\ UNCHANGED renderProgress
           ELSE /\ renderProgress' =
                       ProgressOf(currentTimeInClip, clipDuration)
                /\ SetSess(s, scheduleFrame([r EXCEPT
                     !.lastClipT = currentTimeInClip,
                     !.emitted = Append(@,
                         ProgressOf(currentTimeInClip, clipDuration))]))
    /\ UNCHANGED <<videoFile, analysisResult, isRendering, error, hasRVFC,
                   lastCall>>
    /\ UNCHANGED <<samplerVars, submitVars, funVars>>

\* The browser stops the recorder by itself (MediaRecorder error, or all
\* tracks ended): the recorder becomes inactive and dataavailable and stop
\* are queued, as after mediaRecorder.stop().  The handlers installed at
\* lines 392 and 416 run for such a stop too; nothing in the code removes
\* them or stops the recorder when a session is cleaned up.
recorderStopped(s) ==
    /\ sess[s].recorder = "recording"
    /\ SetSess(s, [sess[s] EXCEPT !.recorder = "flushing",
                                  !.phase = "Finalizing"])
    /\ UNCHANGED <<videoFile, analysisResult, isRendering, renderProgress,
                   error, hasRVFC, lastCall>>
    /\ UNCHANGED <<samplerVars, submitVars, funVars>>

\* A chunk is kept when it is not empty (line 393).
pushChunk(chunks, size) ==
    IF size > 0 THEN Append(chunks, size) ELSE chunks

\* mediaRecorder.ondataavailable (lines 392-394).
ondataavailable(s) ==
    /\ sess[s].recorder = "flushing"
    /\ \E size \in 0..MaxChunk :
         SetSess(s, [sess[s] EXCEPT !.recorder = "stopping",
                                    !.chunks = pushChunk(@, size)])
    /\ UNCHANGED <<videoFile, analysisResult, isRendering, renderProgress,
                   error, hasRVFC, lastCall>>
    /\ UNCHANGED <<samplerVars, submitVars, funVars>>

\* The test of line 419 left out: no blob counts as empty.
IsEmptyBlob_unchecked(chunks) == BlobSize(chunks) < 0

\* blob.size === 0 (line 419)
IsEmptyBlob(chunks) == BlobSize(chunks) = 0

\* mediaRecorder.onstop (lines 416-441), up to the 1000 ms timer.
onstop(s) ==
    /\ sess[s].recorder = "stopping"
    /\ LET r == [sess[s] EXCEPT !.recorder = "stopped"]
       IN  IF IsEmptyBlob(r.chunks)
           THEN /\ error' = "empty"
                /\ SetSess(s, cleanup([r EXCEPT !.phase = "Failed",
                                                !.errors = @ \cup {"empty"}]))
                /\ isRendering' = FALSE
           ELSE /\ SetSess(s, [r EXCEPT !.delivered = @ + 1,
                                        !.finalizeTimer = TRUE])
                /\ UNCHANGED <<error, isRendering>>
    /\ UNCHANGED <<videoFile, analysisResult, renderProgress, hasRVFC,
                   lastCall>>
    /\ UNCHANGED <<samplerVars, submitVars, funVars>>

\* The 1000 ms timer of onstop fires (lines 435-440).
finalizeTimerFires(s) ==
    /\ sess[s].finalizeTimer
    /\ SetSess(s, cleanup([sess[s] EXCEPT !.finalizeTimer = FALSE,
                                          !.phase = "Done",
                                          !.emitted = Append(@, 100)]))
    /\ isRendering' = FALSE
    /\ renderProgress' = 100
    /\ UNCHANGED <<videoFile, analysisResult, error, hasRVFC, lastCall>>
    /\ UNCHANGED <<samplerVars, submitVars, funVars>>

\* ------------------------------------------------- extractVideoFrames
\* The index off by one: (i + 2) / frameCount * 100.
progressValue_offByOne(i) == (i + 2) * 100

\* ((i + 1) / frameCount) * 100, times frameCount (lines 333 and 343)
progressValue(i) == (i + 1) * 100

\* Math.round(progress) of the onProgress callback of handleSubmit
\* (ShortsCreator.tsx, lines 234-236), for progress = v / frameCount
roundedProgress(v, frameCount) == (2 * v + frameCount) \div (2 * frameCount)

\* The seek to (i + 1) * interval.
startSeek_oneAhead(r, i) ==
    [r EXCEPT !.i = i,
              !.seeks = Append(@, (i + 1) * r.duration),
              !.pendingSeeked = @ \cup {i},
              !.pc = "awaitSeek"]

\* Lines 315-324: the seek to i * interval is started and awaited.
startSeek(r, i) ==
    [r EXCEPT !.i = i,
              !.seeks = Append(@, i * r.duration),
              !.pendingSeeked = @ \cup {i},
              !.pc = "awaitSeek"]

\* extractVideoFrames is called (lines 260-279).  ctxOk: getContext
\* returned a context.
callExtractVideoFrames ==
    /\ smp.pc \in {"none", "resolved", "rejected"}
    /\ \E frameCount \in 1..MaxFrameCount, ctxOk \in BOOLEAN :
         smp' = [NoSampler EXCEPT
                   !.frameCount = frameCount,
                   !.url = "live",
                   !.settles = IF ctxOk THEN 0 ELSE 1,
                   !.pc = IF ctxOk THEN "awaitCanplay" ELSE "rejected"]
    /\ progressMessage' = [text |-> "frames", percent |-> 0]
         \* setProgressMessage of the caller (ShortsCreator.tsx, line 233)

\* A call of extractVideoFrames on its own.
extractVideoFrames ==
    /\ callExtractVideoFrames
    /\ UNCHANGED <<renderVars, submitVars, funVars>>

\* The handler body is entered whatever hasStarted is.
mayStart_always(hasStarted) == TRUE

\* if (hasStarted) return (line 283)
mayStart(hasStarted) == ~hasStarted

\* video.oncanplay (lines 282-312); the event can come again after a seek.
\* kind: what video.duration is.
oncanplay ==
    /\ smp.pc \in {"awaitCanplay", "awaitSeek"}
    /\ IF ~mayStart(smp.hasStarted)
       THEN smp' = [smp EXCEPT !.ignored = TRUE]
       ELSE \E kind \in {"falsy", "infinite", "finite"}, d \in 1..MaxTime :
              LET r == [smp EXCEPT !.hasStarted = TRUE]
              IN  IF kind # "finite"
                  THEN smp' = [r EXCEPT !.url = "revoked",
                                        !.settles = @ + 1,
                                        !.ignored = FALSE,
                                        !.pc = "rejected"]
                  ELSE smp' = startSeek([r EXCEPT !.duration = d,
                                                  !.passes = @ + 1], 0)
    /\ UNCHANGED progressMessage
    /\ UNCHANGED <<renderVars, submitVars, funVars>>

\* Every frame pushed, near-empty or not.
keepFrame_all(frames, i, small) == Append(frames, i)

\* base64Data.length < 100 (line 331)
keepFrame(frames, i, small) == IF small THEN frames ELSE Append(frames, i)

\* The event stays deliverable after its dispatch.
dispatchSeeked_again(pending, sig) == pending

\* A 'seeked' event is dispatched once: seekedListener removes itself and
\* resolves the promise of its own iteration (lines 319-324).
dispatchSeeked(pending, sig) == pending \ {sig}

\* The 'seeked' event of seek sig reaches seekedListener; the loop body runs
\* up to the next wait or to the end (lines 319-347).  small: the frame is
\* near-empty.
seekedListener ==
    /\ smp.pc = "awaitSeek"
    /\ \E small \in BOOLEAN, sig \in smp.pendingSeeked :
         LET r == [smp EXCEPT
                     !.pendingSeeked = dispatchSeeked(@, sig),
                     !.captures = Append(@, [index |-> smp.i,
                                             signal |-> sig]),
                     !.frames = keepFrame(@, smp.i, small),
                     !.warned = IF small THEN @ \cup {smp.i} ELSE @,
                     !.emitted = Append(@, progressValue(smp.i))]
         IN  /\ smp' = IF smp.i + 1 < smp.frameCount
                       THEN startSeek(r, smp.i + 1)
                       ELSE [r EXCEPT !.url = "revoked",
                                      !.settles = @ + 1,
                                      !.ignored = FALSE,
                                      !.pc = "resolved"]
             /\ progressMessage' =
                  [text |-> "frames",
                   percent |-> roundedProgress(progressValue(smp.i),
                                               smp.frameCount)]
    /\ UNCHANGED <<renderVars, submitVars, funVars>>

\* video.onerror (lines 350-372); reject has no effect once settled.
samplerOnerror ==
    /\ smp.pc \in {"awaitCanplay", "awaitSeek"}
    /\ smp' = [smp EXCEPT !.url = "revoked", !.settles = @ + 1,
                          !.ignored = FALSE, !.pc = "rejected"]
    /\ UNCHANGED progressMessage
    /\ UNCHANGED <<renderVars, submitVars, funVars>>

SamplerNext ==
    \/ extractVideoFrames
    \/ oncanplay
    \/ seekedListener
    \/ samplerOnerror

Next ==
    \E s \in Sessions :
        \/ handleDownload(s)
        \/ onloadedmetadata(s)
        \/ onerror(s)
        \/ onSeeked(s)
        \/ seekFallback(s)
        \/ onResumed(s)
        \/ playTimerFires(s)
        \/ playResolved(s)
        \/ playRejected(s)
        \/ render(s)
        \/ recorderStopped(s)
        \/ ondataavailable(s)
        \/ onstop(s)
        \/ finalizeTimerFires(s)

Spec == Init /\ [][Next]_vars

\* The sampler alone.
SamplerSpec == Init /\ [][SamplerNext]_vars

\* A render session and a sampling run side by side.
PipelineNext == Next \/ SamplerNext

PipelineSpec == Init /\ [][PipelineNext]_vars

\* Fair delivery of what the browser is bound to deliver once it is due:
\* timers, the settling of play() and resume(), frame callbacks and the
\* events that follow the stop of a recorder.  Nothing forces the metadata
\* to load, 'seeked' to be delivered or the recorder to fail.
FairSpec ==
    /\ Spec
    /\ \A s \in Sessions :
         /\ WF_vars(seekFallback(s))
         /\ WF_vars(onResumed(s))
         /\ WF_vars(playTimerFires(s))
         /\ WF_vars(playResolved(s) \/ playRejected(s))
         /\ WF_vars(render(s))
         /\ WF_vars(ondataavailable(s))
         /\ WF_vars(onstop(s))
         /\ WF_vars(finalizeTimerFires(s))

\* Fair delivery of the events of the sampler video, 'seeked' excepted.
SamplerFairSpec ==
    /\ SamplerSpec
    /\ WF_vars(oncanplay)

\* ------------------------------------------------------------- parseSrt
\* An SRT text is a sequence of tokens: the newline character, or the
\* content of one non-empty line.  A timestamp line carries its two
\* stamps; sep is the character before the milliseconds.
Stamp(h, m, s, ms, sep) ==
    [h |-> h, m |-> m, s |-> s, ms |-> ms, sep |-> sep]

ZeroStamp == Stamp(0, 0, 0, 0, ",")

NL == [k |-> "nl", w |-> "", from |-> ZeroStamp, to |-> ZeroStamp]

TextLine(w) == [k |-> "line", w |-> w, from |-> ZeroStamp, to |-> ZeroStamp]

IndexLine == TextLine("1")

TimeLine(a, b) == [k |-> "time", w |-> "-->", from |-> a, to |-> b]

\* srtText.split('\n\n') (line 82): cur is the block being collected.
RECURSIVE splitBlocks(_, _)
splitBlocks(q, cur) ==
    IF q = <<>> THEN <<cur>>
    ELSE IF Len(q) >= 2 /\ q[1].k = "nl" /\ q[2].k = "nl"
         THEN <<cur>> \o splitBlocks(SubSeq(q, 3, Len(q)), <<>>)
         ELSE splitBlocks(Tail(q), Append(cur, Head(q)))

\* block.split('\n') (line 97): each line is the sequence of its tokens,
\* empty for an empty line.
RECURSIVE splitLines(_, _)
splitLines(q, cur) ==
    IF q = <<>> THEN <<cur>>
    ELSE IF Head(q).k = "nl"
         THEN <<cur>> \o splitLines(Tail(q), <<>>)
         ELSE splitLines(Tail(q), Append(cur, Head(q)))

\* The characters of a line, as one string.
lineString(line) == IF line = <<>> THEN "" ELSE line[1].w

\* A string that trim() removes entirely.
IsBlank(w) == w \in {"", " "}

\* !block.trim() (line 96)
blankBlock(block) ==
    \A j \in 1..Len(block) : block[j].k = "nl" \/ IsBlank(block[j].w)

\* lines[1].match(/(\d{2}:\d{2}:\d{2}[,.]\d{3})\s*-->\s*(...)/) (line 100)
timeMatch(line) ==
    /\ Len(line) = 1
    /\ line[1].k = "time"
    /\ line[1].from.sep \in {",", "."}
    /\ line[1].to.sep \in {",", "."}

\* timeToSeconds (lines 84-93), in milliseconds: the stamp is split at
\* ':', ',' and '.' and its four numbers are combined.
timeToSeconds(time) ==
    (time.h * 3600 + time.m * 60 + time.s) * 1000 + time.ms

\* lines.join(' '): the strings of the lines with one " " between two.
RECURSIVE joinLines(_)
joinLines(lines) ==
    IF lines = <<>> THEN <<>>
    ELSE IF Len(lines) = 1 THEN <<lineString(lines[1])>>
    ELSE <<lineString(lines[1]), " ">> \o joinLines(Tail(lines))

\* trim(): blank pieces are removed from both ends.
RECURSIVE trimStart(_)
trimStart(t) ==
    IF t # <<>> /\ IsBlank(Head(t)) THEN trimStart(Tail(t)) ELSE t

RECURSIVE trimEnd(_)
trimEnd(t) ==
    IF t # <<>> /\ IsBlank(t[Len(t)])
    THEN trimEnd(SubSeq(t, 1, Len(t) - 1))
    ELSE t

trim(t) == trimEnd(trimStart(t))

\* subtitles.push({ text, start, end }) (line 106): no style field.
Caption(text, start, end) ==
    [ text     |-> text,
      start    |-> start,
      end      |-> end,
      fontSize |-> <<>>,     \* <<>>: the field is absent
      position |-> <<>> ]

\* The body of the for loop for one block (lines 96-109): the captions it
\* pushes.
parseBlock(block) ==
    IF blankBlock(block) THEN <<>>
    ELSE LET lines == splitLines(block, <<>>)
         IN  IF Len(lines) >= 3 /\ timeMatch(lines[2])
             THEN LET text == trim(joinLines(SubSeq(lines, 3, Len(lines))))
                  IN  IF text # <<>>
                      THEN << Caption(text,
                                      timeToSeconds(lines[2][1].from),
                                      timeToSeconds(lines[2][1].to)) >>
                      ELSE <<>>
             ELSE <<>>

RECURSIVE parseBlocks(_)
parseBlocks(blocks) ==
    IF blocks = <<>> THEN <<>>
    ELSE parseBlock(Head(blocks)) \o parseBlocks(Tail(blocks))

\* parseSrt (lines 79-112); '\r' is not a token, the replace of line 82
\* has been done.
parseSrt(srtText) == parseBlocks(splitBlocks(srtText, <<>>))

\* The SRT blocks of the inputs: a cue of one text line, a cue of two text
\* lines, a cue with a malformed timestamp line, a cue whose text is
\* blank, a cue without text, and a cue that ends before it starts.
BlockPalette ==
    LET t1 == Stamp(0, 0, 1, 0, ",")
        t2 == Stamp(0, 0, 2, 500, ".")
        t3 == Stamp(0, 1, 0, 0, ",")
        bad == Stamp(0, 0, 3, 0, ";")
    IN  { <<IndexLine, NL, TimeLine(t1, t2), NL, TextLine("Hello")>>,
          <<IndexLine, NL, TimeLine(t2, t3), NL, TextLine("Hello"), NL,
            TextLine("world")>>,
          <<IndexLine, NL, TimeLine(t1, bad), NL, TextLine("Hello")>>,
          <<IndexLine, NL, TimeLine(t1, t2), NL, TextLine(" ")>>,
          <<IndexLine, NL, TimeLine(t1, t2)>>,
          <<IndexLine, NL, TimeLine(t3, t1), NL, TextLine("world")>> }

\* One blank line or two between two blocks.
Separators == { <<NL, NL>>, <<NL, NL, NL>> }

RECURSIVE SrtBodies(_)
SrtBodies(n) ==
    IF n <= 1 THEN BlockPalette
    ELSE BlockPalette \cup
         { b \o sp \o t :
             b \in BlockPalette, sp \in Separators, t \in SrtBodies(n - 1) }

\* The texts given to parseSrt: up to MaxSrtBlocks blocks, with or without
\* a newline before the first and newlines after the last.
SrtInputs ==
    {<<>>} \cup
    { lead \o t \o trail :
        lead \in {<<>>, <<NL>>},
        t \in SrtBodies(MaxSrtBlocks),
        trail \in {<<>>, <<NL>>, <<NL, NL>>} }

\* parseSrt is called: the text is split into blocks (lines 80-82).
parseSrtCall ==
    /\ parse.pc = "none"
    /\ parse' = [parse EXCEPT !.pc = "loop",
                              !.blocks = splitBlocks(parse.srtText, <<>>)]
    /\ UNCHANGED <<renderVars, samplerVars, submitVars, wav, comp,
                   preview, enc, fileLoads>>

\* One iteration of the for loop (lines 95-110).
parseSrtBlock ==
    /\ parse.pc = "loop"
    /\ parse.blocks # <<>>
    /\ parse' = [parse EXCEPT
                   !.blocks = Tail(@),
                   !.subtitles = @ \o parseBlock(Head(parse.blocks))]
    /\ UNCHANGED <<renderVars, samplerVars, submitVars, wav, comp,
                   preview, enc, fileLoads>>

\* return subtitles (line 111)
parseSrtReturn ==
    /\ parse.pc = "loop"
    /\ parse.blocks = <<>>
    /\ parse' = [parse EXCEPT !.pc = "returned"]
    /\ UNCHANGED <<renderVars, samplerVars, submitVars, wav, comp,
                   preview, enc, fileLoads>>

ParseNext == parseSrtCall \/ parseSrtBlock \/ parseSrtReturn

\* ------------------------------------------------------- audioBufferToWav
\* The two bytes most significant first.
U16LE_bigEndian(v) == << (v \div 256) % 256, v % 256 >>

\* view.setUint16(offset, v, true): two bytes, least significant first
\* (VideoAnalyzer.tsx, lines 184-189)
U16LE(v) == << v % 256, (v \div 256) % 256 >>

\* view.setUint32(offset, v, true): four bytes, least significant first;
\* what does not fit in 32 bits is dropped (lines 179-192)
U32LE(v) ==
    << v % 256, (v \div 256) % 256, (v \div 65536) % 256,
       (v \div 16777216) % 256 >>

\* writeString (lines 142-146) of 'RIFF', 'WAVE', 'fmt ' and 'data'
RIFF == <<82, 73, 70, 70>>
WAVE == <<87, 65, 86, 69>>
FMT == <<102, 109, 116, 32>>
DATA == <<100, 97, 116, 97>>

\* result.length (lines 155-167): the channels are interleaved only when
\* there are two; otherwise channel 0 alone is encoded.
resultLength(numChannels, length) ==
    IF numChannels = 2 THEN length * 2 ELSE length

\* The 44 bytes of the header (lines 169-192).
wavHeader(numChannels, sampleRate, length) ==
    LET bitDepth == 16
        bytesPerSample == bitDepth \div 8
        blockAlign == numChannels * bytesPerSample
        byteRate == sampleRate * blockAlign
        dataSize == resultLength(numChannels, length) * bytesPerSample
    IN  RIFF \o U32LE(36 + dataSize) \o WAVE \o FMT \o U32LE(16)
          \o U16LE(1) \o U16LE(numChannels) \o U32LE(sampleRate)
          \o U32LE(byteRate) \o U16LE(blockAlign) \o U16LE(bitDepth)
          \o DATA \o U32LE(dataSize)

\* A little-endian field of n bytes read back at a byte offset.
RECURSIVE readLE(_, _, _)
readLE(bytes, offset, n) ==
    IF n = 0 THEN 0
    ELSE bytes[offset + 1] + 256 * readLE(bytes, offset + 1, n - 1)

\* The fields of a canonical 44-byte WAV header.
readHeader(bytes) ==
    [ riff        |-> SubSeq(bytes, 1, 4),
      riffSize    |-> readLE(bytes, 4, 4),
      wave        |-> SubSeq(bytes, 9, 12),
      format      |-> readLE(bytes, 20, 2),
      numChannels |-> readLE(bytes, 22, 2),
      sampleRate  |-> readLE(bytes, 24, 4),
      byteRate    |-> readLE(bytes, 28, 4),
      blockAlign  |-> readLE(bytes, 32, 2),
      bitDepth    |-> readLE(bytes, 34, 2),
      dataSize    |-> readLE(bytes, 40, 4) ]

\* The sample rates of the buffers encoded.
SampleRates == {8000, 16000, 44100, 48000}

\* The buffers given to audioBufferToWav: buffer.numberOfChannels,
\* buffer.sampleRate and buffer.length.
WavInputs ==
    { [NoWav EXCEPT !.pc = "buffer", !.numChannels = c, !.sampleRate = r,
                    !.length = n] :
        c \in 1..MaxChannels, r \in SampleRates, n \in 0..MaxSamples }

\* audioBufferToWav runs (lines 149-200): the header and the number of
\* samples written after it.
audioBufferToWav ==
    /\ wav.pc = "buffer"
    /\ wav' = [wav EXCEPT
                 !.pc = "encoded",
                 !.samples = resultLength(wav.numChannels, wav.length),
                 !.header = wavHeader(wav.numChannels, wav.sampleRate,
                                      wav.length)]
    /\ UNCHANGED <<renderVars, samplerVars, submitVars, parse, comp,
                   preview, enc, fileLoads>>

\* A reader takes the header of the encoded file apart.
parseWavHeader ==
    /\ wav.pc = "encoded"
    /\ wav' = [wav EXCEPT !.pc = "parsed",
                          !.parsed = readHeader(wav.header)]
    /\ UNCHANGED <<renderVars, samplerVars, submitVars, parse, comp,
                   preview, enc, fileLoads>>

WavNext == audioBufferToWav \/ parseWavHeader

\* ------------------------------------------------ render compositing step
\* Times are in ticks of 1/20 s, opacities in 1/60, text scales in 1/20.
FADE_DURATION == 15

ANIMATION_DURATION == 4

AlphaOne == 60

ScaleOne == 20

\* Math.max(0, Math.min(1, a)) (lines 472 and 525)
clampAlpha(a) == IF a < 0 THEN 0 ELSE IF a > AlphaOne THEN AlphaOne ELSE a

\* frameAlpha (lines 463-471)
frameAlpha(currentTimeInClip, clipDuration, useFadeTransition) ==
    IF useFadeTransition /\ currentTimeInClip < FADE_DURATION
    THEN (currentTimeInClip * AlphaOne) \div FADE_DURATION
    ELSE IF useFadeTransition
            /\ currentTimeInClip > clipDuration - FADE_DURATION
         THEN ((clipDuration - currentTimeInClip) * AlphaOne)
                \div FADE_DURATION
         ELSE AlphaOne

\* scale of the Ken Burns effect (lines 475-476), times 10 * clipDuration
kenBurnsScale(currentTimeInClip, clipDuration, useKenBurns) ==
    IF useKenBurns
    THEN 10 * clipDuration + currentTimeInClip
    ELSE 10 * clipDuration

\* The last caption whose interval holds currentTime.
currentSub_last(subtitles, currentTime) ==
    LET hits == { j \in 1..Len(subtitles) :
                    /\ currentTime >= subtitles[j].start
                    /\ currentTime <= subtitles[j].end }
    IN  IF hits = {} THEN 0
        ELSE CHOOSE j \in hits : \A k \in hits : k <= j

\* analysisResult.subtitles.find(...) (lines 505-507): the index of the
\* first caption whose interval holds currentTime, 0 when there is none
currentSub(subtitles, currentTime) ==
    LET hits == { j \in 1..Len(subtitles) :
                    /\ currentTime >= subtitles[j].start
                    /\ currentTime <= subtitles[j].end }
    IN  IF hits = {} THEN 0
        ELSE CHOOSE j \in hits : \A k \in hits : j <= k

\* The time into the caption taken from the wall clock.
timeIntoSubtitle_wallClock(currentTime, now, start) == now - start

\* timeIntoSubtitle (line 514); now is the timestamp the browser hands to
\* a frame callback, which render does not take.
timeIntoSubtitle(currentTime, now, start) == currentTime - start

\* textScale (lines 516-523)
textScale(t, useSubtitleAnimation) ==
    IF useSubtitleAnimation /\ t < ANIMATION_DURATION
    THEN (4 * ScaleOne) \div 5 + (ScaleOne * t) \div (5 * ANIMATION_DURATION)
    ELSE ScaleOne

\* textAlpha (lines 517-523)
textAlpha(t, useSubtitleAnimation) ==
    IF useSubtitleAnimation /\ t < ANIMATION_DURATION
    THEN (t * AlphaOne) \div ANIMATION_DURATION
    ELSE AlphaOne

\* render returned before the drawing logic.
NoFrame ==
    [ drawn        |-> FALSE,
      frameAlpha   |-> 0,
      scale        |-> 0,
      currentSub   |-> 0,
      textScale    |-> 0,
      textAlpha    |-> 0,
      captionAlpha |-> 0 ]

\* One call of render (lines 444-548) with videoElement.currentTime =
\* currentTime: the effect parameters it draws with.
renderFrame(isRenderingOfClosure, window, style, currentTime, now) ==
    LET currentTimeInClip == currentTime - window.startTime
        clipDuration == window.endTime - window.startTime
        alpha == frameAlpha(currentTimeInClip, clipDuration,
                            style.useFadeTransition)
        j == currentSub(window.subtitles, currentTime)
        into == IF j = 0 THEN 0
                ELSE timeIntoSubtitle(currentTime, now,
                                      window.subtitles[j].start)
    IN  IF ~isRenderingOfClosure THEN NoFrame
        ELSE IF currentTimeInClip >= clipDuration THEN NoFrame
        ELSE [ drawn        |-> TRUE,
               frameAlpha   |-> clampAlpha(alpha),
               scale        |-> kenBurnsScale(currentTimeInClip,
                                              clipDuration,
                                              style.useKenBurns),
               currentSub   |-> j,
               textScale    |-> IF j = 0 THEN 0
                                ELSE textScale(into,
                                         style.useSubtitleAnimation),
               textAlpha    |-> IF j = 0 THEN 0
                                ELSE textAlpha(into,
                                         style.useSubtitleAnimation),
               captionAlpha |-> IF j = 0 THEN 0
                                ELSE clampAlpha(
                                       (alpha * textAlpha(into,
                                          style.useSubtitleAnimation))
                                       \div AlphaOne) ]

\* The clip windows composited: a clip of 2 s with two overlapping
\* captions, and a clip shorter than two fades.
CompWindows ==
    { [present |-> TRUE, startTime |-> 20, endTime |-> 60,
       subtitles |-> << Caption(<<"hi">>, 30, 50),
                        Caption(<<"yo">>, 48, 58) >>],
      [present |-> TRUE, startTime |-> 20, endTime |-> 40,
       subtitles |-> << Caption(<<"hi">>, 22, 35) >>] }

\* The values of videoElement.currentTime sampled by the frame callbacks.
SampleTimes == {20, 24, 31, 33, 48, 52, 59, 60}

RECURSIVE SeqsUpTo(_, _)
SeqsUpTo(S, n) ==
    IF n = 0 THEN {<<>>}
    ELSE LET shorter == SeqsUpTo(S, n - 1)
         IN  shorter \cup { Append(q, x) : q \in shorter, x \in S }

CompInputs ==
    { [NoComp EXCEPT !.pc = "running", !.isRendering = c, !.window = w,
                     !.style = st, !.ts = q] :
        c \in BOOLEAN, w \in CompWindows, st \in StyleFlags,
        q \in SeqsUpTo(SampleTimes, MaxFrames) \ {<<>>} }

\* A frame callback of run r: render runs on the next sampled time; it
\* asks for another frame only when it has drawn (lines 445, 451-456,
\* 550-554).
renderOnSample(r) ==
    /\ comp.pc = "running"
    /\ ~comp.runs[r].done
    /\ comp.runs[r].i <= Len(comp.ts)
    /\ LET run == comp.runs[r]
           p == renderFrame(comp.isRendering, comp.window, comp.style,
                            comp.ts[run.i], comp.now)
       IN  comp' = [comp EXCEPT
                      !.now = @ + 1,
                      !.runs[r] = [i |-> run.i + 1,
                                   done |-> ~p.drawn,
                                   out |-> Append(run.out, p)]]
    /\ UNCHANGED <<renderVars, samplerVars, submitVars, parse, wav,
                   preview, enc, fileLoads>>

CompNext == \E r \in 1..2 : renderOnSample(r)

\* ----------------------------------------------------------- handleSubmit
\* A caption of an analysis response with the style fields of dynamic
\* styling.
Styled(c) == [c EXCEPT !.fontSize = <<52>>, !.position = <<"top">>]

\* The values of partialResult.subtitles when it is an array (times in
\* milliseconds, as for parseSrt).
ResponseCaptionLists ==
    { <<>>,
      << Caption(<<"hi">>, 1000, 2000) >>,
      << Styled(Caption(<<"hi">>, 1000, 2000)) >>,
      << Caption(<<"yo">>, 3000, 4000), Caption(<<"hi">>, 1000, 2000) >>,
      << Caption(<<"hi">>, 2000, 1000) >> }

\* What analyzeVideoForClipping can settle with: a rejection, a text that
\* is not JSON, or an object whose fields have any type.
Responses ==
    { [NoResponse EXCEPT !.kind = k] : k \in {"rejected", "badJson"} }
    \cup
    { [ kind      |-> "object",
        startTime |-> a,
        endTime   |-> b,
        subtitles |-> c ] :
        a \in { [num |-> TRUE, v |-> 10000], [num |-> FALSE, v |-> 0] },
        b \in { [num |-> TRUE, v |-> 20000], [num |-> TRUE, v |-> 10000],
                [num |-> FALSE, v |-> 0] },
        c \in { [kind |-> "absent", list |-> <<>>],
                [kind |-> "notArray", list |-> <<>>] }
              \cup { [kind |-> "array", list |-> l] :
                       l \in ResponseCaptionLists } }

\* The contents of the .srt files chosen: an empty file, one cue, two cues
\* the later one first, and a cue that ends before it starts.
SubmitSrtTexts ==
    LET t1 == Stamp(0, 0, 1, 0, ",")
        t2 == Stamp(0, 0, 2, 500, ".")
        t3 == Stamp(0, 1, 0, 0, ",")
        cue(a, b, w) == <<IndexLine, NL, TimeLine(a, b), NL, TextLine(w)>>
    IN  { <<>>,
          cue(t1, t2, "Hello") \o <<NL>>,
          cue(t2, t3, "world") \o <<NL, NL>> \o cue(t1, t2, "Hello"),
          cue(t3, t1, "Hello") }

\* A JavaScript string is truthy unless it is null or empty (lines 240
\* and 245).
truthy(srtContent) == srtContent.present /\ srtContent.text # <<>>

\* handleSrtFileChange (lines 177-189).  kind: what was chosen.
handleSrtFileChange ==
    /\ \E kind \in {"srt", "other", "nothing"}, t \in SubmitSrtTexts :
         CASE kind = "srt" ->
                /\ srtFile' = [present |-> TRUE, text |-> t]
                /\ useDynamicStyling' = FALSE
                /\ error' = NULL
           [] kind = "other" ->
                /\ srtFile' = NoSrt
                /\ error' = "notSrt"
                /\ UNCHANGED useDynamicStyling
           [] OTHER ->
                /\ srtFile' = NoSrt
                /\ UNCHANGED <<useDynamicStyling, error>>
    /\ UNCHANGED <<videoFile, analysisResult, isRendering, renderProgress,
                   hasRVFC, sess, lastCall, samplerVars, isLoading, sub,
                   funVars>>

\* onChange of the dynamic-styling checkbox (lines 664-669), which is
\* disabled while rendering or while an SRT file is selected.
setUseDynamicStyling ==
    /\ ~(isRendering \/ srtFile.present)
    /\ useDynamicStyling' = ~useDynamicStyling
    /\ UNCHANGED <<renderVars, samplerVars, isLoading, srtFile, sub,
                   funVars>>

\* handleSubmit up to its first await (lines 210-227).
handleSubmit ==
    /\ videoFile # 0 /\ ~isLoading
    /\ isLoading' = TRUE
    /\ error' = NULL
    /\ analysisResult' = NoAnalysis
    /\ sub' = [NoSubmit EXCEPT
                 !.pc = IF srtFile.present THEN "readSrt" ELSE "awaitAudio",
                 !.videoFile = videoFile,
                 !.srtFile = srtFile,
                 !.useDynamicStyling = useDynamicStyling]
    /\ progressMessage' =
         [text |-> IF srtFile.present THEN "srt" ELSE "audio",
          percent |-> 0]
    /\ UNCHANGED <<videoFile, isRendering, renderProgress, hasRVFC, sess,
                   lastCall, smp, srtFile, useDynamicStyling, funVars>>

\* The catch and finally blocks (lines 271-285) for an error thrown at the
\* step named; message is the kind of message shown.
catchSubmit(at, message) ==
    /\ error' = message
    /\ isLoading' = FALSE
    /\ progressMessage' = [text |-> "", percent |-> 0]
    /\ sub' = [sub EXCEPT !.pc = "failed", !.failedAt = at]
    /\ UNCHANGED analysisResult

\* srtFile.text() settles (lines 222-227).
srtTextRead ==
    /\ sub.pc = "readSrt"
    /\ \E ok \in BOOLEAN :
         IF ok
         THEN /\ sub' = [sub EXCEPT
                           !.pc = "awaitAudio",
                           !.srtContent = [present |-> TRUE,
                                           text |-> sub.srtFile.text]]
              /\ progressMessage' = [text |-> "audio", percent |-> 0]
              /\ UNCHANGED <<analysisResult, error, isLoading>>
         ELSE catchSubmit("srt", "message")
    /\ UNCHANGED <<videoFile, isRendering, renderProgress, hasRVFC, sess,
                   lastCall, smp, srtFile, useDynamicStyling, funVars>>

\* An error of the audio extraction thrown to the caller.
audioOutcome_rethrow(ok) == IF ok THEN "wav" ELSE "throw"

\* extractAudioFromVideo (VideoAnalyzer.tsx, lines 213-257): the WAV when
\* every step worked, null when any of them threw (lines 253-256).
audioOutcome(ok) == IF ok THEN "wav" ELSE "null"

\* The AudioContext of extractAudioFromVideo when it returns.  threwAt is
\* "none" (line 251 was reached and closed it) or "decode" (a line of the
\* try block after the constructor threw: the catch of lines 253-256
\* leaves the context as it is).  A throw of the constructor itself (line
\* 216) returns null in the same way with no context made; it is not
\* drawn as an input.
audioContextAfter(threwAt) ==
    IF threwAt = "none" THEN "closed" ELSE "open"

\* extractAudioFromVideo settles and extractVideoFrames is called (lines
\* 227-236).
audioSettled ==
    /\ sub.pc = "awaitAudio"
    /\ \E threwAt \in {"none", "decode"} :
         LET ok == threwAt = "none"
         IN
         IF audioOutcome(ok) = "throw"
         THEN /\ catchSubmit("audio", "message")
              /\ UNCHANGED smp
         ELSE /\ sub' = [sub EXCEPT !.pc = "awaitFrames",
                                    !.audioData = audioOutcome(ok),
                                    !.audioFailed = ~ok,
                                    !.audioContext = audioContextAfter(threwAt)]
              /\ callExtractVideoFrames
              /\ UNCHANGED <<analysisResult, error, isLoading>>
    /\ UNCHANGED <<videoFile, isRendering, renderProgress, hasRVFC, sess,
                   lastCall, srtFile, useDynamicStyling, funVars>>

\* The promise of extractVideoFrames has settled (lines 234-240): the
\* analysis is requested, or the rejection is caught.
framesSettled ==
    /\ sub.pc = "awaitFrames"
    /\ smp.pc \in {"resolved", "rejected"}
    /\ IF smp.pc = "resolved"
       THEN /\ sub' = [sub EXCEPT
                         !.pc = "awaitAnalysis",
                         !.apiCalled = TRUE,
                         !.flagSent = sub.useDynamicStyling
                                        /\ ~truthy(sub.srtContent)]
            /\ progressMessage' = [text |-> "analysis", percent |-> 0]
            /\ UNCHANGED <<analysisResult, error, isLoading>>
       ELSE catchSubmit("frames", "message")
    /\ UNCHANGED <<videoFile, isRendering, renderProgress, hasRVFC, sess,
                   lastCall, smp, srtFile, useDynamicStyling, funVars>>

\* The checks of lines 245-260 on the parsed response.
acceptable(response, srtContent) ==
    /\ response.startTime.num
    /\ response.endTime.num
    /\ truthy(srtContent) \/ response.subtitles.kind = "array"

\* finalResult (lines 243-260)
finalResult(response, srtContent) ==
    [ present   |-> TRUE,
      startTime |-> response.startTime.v,
      endTime   |-> response.endTime.v,
      subtitles |-> IF truthy(srtContent)
                    THEN parseSrt(srtContent.text)
                    ELSE response.subtitles.list ]

\* analyzeVideoForClipping settles (lines 240-285).
analysisSettled ==
    /\ sub.pc = "awaitAnalysis"
    /\ \E response \in Responses :
         LET r == [sub EXCEPT !.response = response]
         IN  CASE response.kind = "rejected" ->
                    /\ error' = "api"
                    /\ sub' = [r EXCEPT !.pc = "failed", !.failedAt = "api"]
                    /\ UNCHANGED analysisResult
               [] response.kind = "badJson" ->
                    /\ error' = "json"
                    /\ sub' = [r EXCEPT !.pc = "failed",
                                        !.failedAt = "json"]
                    /\ UNCHANGED analysisResult
               [] OTHER ->
                    IF acceptable(response, sub.srtContent)
                    THEN /\ analysisResult' =
                              finalResult(response, sub.srtContent)
                         /\ sub' = [r EXCEPT !.pc = "done"]
                         /\ UNCHANGED error
                    ELSE /\ error' = "invalid"
                         /\ sub' = [r EXCEPT !.pc = "failed",
                                             !.failedAt = "invalid"]
                         /\ UNCHANGED analysisResult
    /\ isLoading' = FALSE
    /\ progressMessage' = [text |-> "", percent |-> 0]
    /\ UNCHANGED <<videoFile, isRendering, renderProgress, hasRVFC, sess,
                   lastCall, smp, srtFile, useDynamicStyling, funVars>>

SubmitNext ==
    \/ handleSrtFileChange
    \/ setUseDynamicStyling
    \/ handleSubmit
    \/ srtTextRead
    \/ audioSettled
    \/ framesSettled
    \/ analysisSettled
    \/ oncanplay
    \/ seekedListener
    \/ samplerOnerror

\* ------------------------------------------------ further specifications
\* The component with a video selected and nothing analysed or rendered.
RenderIdle ==
    /\ videoFile = 1
    /\ analysisResult = NoAnalysis
    /\ isRendering = FALSE
    /\ renderProgress = 0
    /\ error = NULL
    /\ hasRVFC = FALSE
    /\ sess = [s \in Sessions |-> NoSession]
    /\ lastCall = "none"

SamplerIdle ==
    /\ smp = NoSampler
    /\ progressMessage = [text |-> "", percent |-> 0]

\* No SRT file chosen, dynamic styling at its initial value (line 128).
SubmitIdle ==
    /\ isLoading = FALSE
    /\ srtFile = NoSrt
    /\ useDynamicStyling = TRUE
    /\ sub = NoSubmit
    /\ fileLoads = {}

\* The analysis step: handleSubmit, the SRT input, the styling checkbox
\* and the events of the sampler video.
SubmitInit ==
    /\ RenderIdle /\ SamplerIdle /\ SubmitIdle
    /\ parse = NoParse /\ wav = NoWav /\ comp = NoComp
    /\ preview = NoPreview /\ enc = NoEnc

SubmitSpec == SubmitInit /\ [][SubmitNext]_vars

\* parseSrt on every text of SrtInputs.
ParseInit ==
    /\ RenderIdle /\ SamplerIdle /\ SubmitIdle
    /\ parse \in { [NoParse EXCEPT !.srtText = t] : t \in SrtInputs }
    /\ wav = NoWav /\ comp = NoComp
    /\ preview = NoPreview /\ enc = NoEnc

ParseSpec == ParseInit /\ [][ParseNext]_vars

\* audioBufferToWav on every buffer of WavInputs.
WavInit ==
    /\ RenderIdle /\ SamplerIdle /\ SubmitIdle
    /\ parse = NoParse /\ wav \in WavInputs /\ comp = NoComp
    /\ preview = NoPreview /\ enc = NoEnc

WavSpec == WavInit /\ [][WavNext]_vars

\* Two runs of the render loop over the same sampled times.
CompInit ==
    /\ RenderIdle /\ SamplerIdle /\ SubmitIdle
    /\ parse = NoParse /\ wav = NoWav /\ comp \in CompInputs
    /\ preview = NoPreview /\ enc = NoEnc

CompSpec == CompInit /\ [][CompNext]_vars

\* ---------------------------------------------------- output format choice
\* mimeTypes (lines 376-381)
mimeTypes ==
    << "video/webm;codecs=vp9,opus",
       "video/webm;codecs=vp8,opus",
       "video/webm",
       "video/mp4" >>

\* The last of mimeTypes that is supported.
selectMimeType_last(supported) ==
    LET hits == { k \in DOMAIN mimeTypes : mimeTypes[k] \in supported }
    IN  IF hits = {} THEN "video/webm"
        ELSE mimeTypes[CHOOSE k \in hits : \A j \in hits : j <= k]

\* mimeTypes.find(type => MediaRecorder.isTypeSupported(type))
\*   || 'video/webm' (line 383)
selectMimeType(supported) ==
    LET hits == { k \in DOMAIN mimeTypes : mimeTypes[k] \in supported }
    IN  IF hits = {} THEN "video/webm"
        ELSE mimeTypes[CHOOSE k \in hits : \A j \in hits : k <= j]

\* The types an environment can support: those of mimeTypes and one that is
\* not in the list.
KnownTypes == { mimeTypes[k] : k \in DOMAIN mimeTypes } \cup {"video/x-matroska"}

\* The environments handleDownload can run in when it reaches line 376.
EncInputs ==
    { [NoEnc EXCEPT !.pc = "stream", !.supported = S, !.ctorOk = ok] :
        S \in SUBSET KnownTypes, ok \in BOOLEAN }

\* Line 383: the format is chosen.
chooseMimeType ==
    /\ enc.pc = "stream"
    /\ enc' = [enc EXCEPT !.pc = "selected",
                          !.mimeType = selectMimeType(enc.supported)]
    /\ UNCHANGED <<renderVars, samplerVars, submitVars, parse, wav, comp,
                   preview, fileLoads>>

\* new MediaRecorder(stream, {mimeType, ...}) (lines 386-389).  The
\* constructor throws NotSupportedError for a type the environment does not
\* support, and the catch block shows the message of what was thrown (lines
\* 583-592).
newMediaRecorder ==
    /\ enc.pc = "selected"
    /\ enc' = IF enc.mimeType \notin enc.supported
              THEN [enc EXCEPT !.pc = "failed",
                               !.error = "NotSupportedError"]
              ELSE IF ~enc.ctorOk
              THEN [enc EXCEPT !.pc = "failed", !.error = "OtherError"]
              ELSE [enc EXCEPT !.pc = "created", !.recorder = "inactive"]
    /\ UNCHANGED <<renderVars, samplerVars, submitVars, parse, wav, comp,
                   preview, fileLoads>>

\* mediaRecorder.start() (line 562)
startRecorder ==
    /\ enc.pc = "created"
    /\ enc' = [enc EXCEPT !.pc = "recording", !.recorder = "recording"]
    /\ UNCHANGED <<renderVars, samplerVars, submitVars, parse, wav, comp,
                   preview, fileLoads>>

EncNext == chooseMimeType \/ newMediaRecorder \/ startRecorder

\* The choice of the output format in every environment of EncInputs.
EncInit ==
    /\ RenderIdle /\ SamplerIdle /\ SubmitIdle
    /\ parse = NoParse /\ wav = NoWav /\ comp = NoComp
    /\ preview = NoPreview /\ enc \in EncInputs

EncSpec == EncInit /\ [][EncNext]_vars

\* ------------------------------------------------- preview and caption
\* STYLE_PRESETS (lines 40-77): fontSize and position of each preset.
STYLE_PRESETS ==
    { [fontSize |-> 58, position |-> "bottom"],
      [fontSize |-> 52, position |-> "bottom"],
      [fontSize |-> 48, position |-> "bottom"],
      [fontSize |-> 64, position |-> "bottom"] }

\* A fontSize field is truthy: present and not 0.
hasFontSize(s) == s.fontSize # <<>> /\ s.fontSize[1] # 0

\* A position field is truthy: present and not "".
hasPosition(s) == s.position # <<>> /\ s.position[1] # ""

\* currentSub.fontSize || fontSize (line 511)
currentFontSize(s, fontSize) ==
    IF hasFontSize(s) THEN s.fontSize[1] ELSE fontSize

\* currentSub.position || subtitlePosition (line 512)
currentPosition(s, subtitlePosition) ==
    IF hasPosition(s) THEN s.position[1] ELSE subtitlePosition

\* currentPreviewFontSize (line 609); j is the index of activeSubtitle, 0
\* for null
currentPreviewFontSize(dynamic, subtitles, j, fontSize) ==
    IF dynamic /\ j # 0 /\ hasFontSize(subtitles[j])
    THEN subtitles[j].fontSize[1]
    ELSE fontSize

\* currentPosition of getPreviewPositionStyles (line 596)
currentPreviewPosition(dynamic, subtitles, j, subtitlePosition) ==
    IF dynamic /\ j # 0 /\ hasPosition(subtitles[j])
    THEN subtitles[j].position[1]
    ELSE subtitlePosition

\* The positions of the player and of the render clock, in ticks: before,
\* in and after the clip window and around the caption boundaries.
PreviewTimes == {10, 20, 29, 30, 48, 50, 51, 58, 59, 60, 65}

\* Stored analyses: two overlapping captions, styled by dynamic styling
\* wholly, in part or not at all.
PreviewWindows ==
    { [ present |-> TRUE, startTime |-> 20, endTime |-> 60,
        subtitles |-> l ] :
        l \in { << [Caption(<<"hi">>, 30, 50) EXCEPT
                      !.fontSize = <<64>>, !.position = <<"top">>],
                   Caption(<<"yo">>, 48, 58) >>,
                << Caption(<<"hi">>, 30, 50),
                   [Caption(<<"yo">>, 48, 58) EXCEPT
                      !.fontSize = <<40>>] >> } }

\* onTimeUpdate of the preview player (lines 191-207).  t: the position of
\* the player when the event is handled.
handleTimeUpdate ==
    /\ \E t \in PreviewTimes :
         IF ~analysisResult.present
         THEN preview' = [preview EXCEPT !.currentTime = t,
                                         !.activeSubtitle = 0]
         ELSE preview' =
                [preview EXCEPT
                   !.currentTime =
                      IF t >= analysisResult.endTime
                         \/ t < analysisResult.startTime
                      THEN analysisResult.startTime ELSE t,
                   !.looked = TRUE,
                   !.lookupTime = t,
                   !.activeSubtitle =
                      currentSub(analysisResult.subtitles, t)]
    /\ UNCHANGED <<renderVars, samplerVars, submitVars, parse, wav, comp,
                   enc, fileLoads>>

\* The caption step of render (lines 504-512) at a source time t of the
\* clip window: the caption and the style it is drawn with.
drawSubtitles ==
    /\ analysisResult.present
    /\ \E t \in PreviewTimes :
         /\ t >= analysisResult.startTime /\ t < analysisResult.endTime
         /\ LET j == currentSub(analysisResult.subtitles, t)
                s == analysisResult.subtitles[j]
            IN  preview' =
                  [preview EXCEPT !.drawn =
                     [ done |-> TRUE, time |-> t, currentSub |-> j,
                       fontSize |->
                          IF j = 0 THEN 0
                          ELSE currentFontSize(s, preview.fontSize),
                       position |->
                          IF j = 0 THEN "none"
                          ELSE currentPosition(s, preview.subtitlePosition)
                     ]]
    /\ UNCHANGED <<renderVars, samplerVars, submitVars, parse, wav, comp,
                   enc, fileLoads>>

\* applyPreset (lines 611-617)
applyPreset ==
    /\ \E preset \in STYLE_PRESETS :
         preview' = [preview EXCEPT !.fontSize = preset.fontSize,
                                    !.subtitlePosition = preset.position]
    /\ UNCHANGED <<renderVars, samplerVars, submitVars, parse, wav, comp,
                   enc, fileLoads>>

\* onClick of a position button (line 761)
setSubtitlePosition ==
    /\ \E value \in {"bottom", "middle", "top"} :
         preview' = [preview EXCEPT !.subtitlePosition = value]
    /\ UNCHANGED <<renderVars, samplerVars, submitVars, parse, wav, comp,
                   enc, fileLoads>>

PreviewNext ==
    \/ handleTimeUpdate
    \/ drawSubtitles
    \/ applyPreset
    \/ setSubtitlePosition
    \/ setUseDynamicStyling

\* An analysis is stored; the player, the style controls and the caption
\* step of render act on it.
PreviewInit ==
    /\ videoFile = 1
    /\ analysisResult \in PreviewWindows
    /\ isRendering = FALSE
    /\ renderProgress = 0
    /\ error = NULL
    /\ hasRVFC = FALSE
    /\ sess = [s \in Sessions |-> NoSession]
    /\ lastCall = "none"
    /\ SamplerIdle /\ SubmitIdle
    /\ parse = NoParse /\ wav = NoWav /\ comp = NoComp
    /\ preview = NoPreview /\ enc = NoEnc

PreviewSpec == PreviewInit /\ [][PreviewNext]_vars

\* ------------------------------------------------------- video selection
\* onChange of the video file input (lines 142-175, input at lines 634-641,
\* which is never disabled).  file: e.target.files[0], 0 when the dialog
\* was left without a file.
handleFileChange ==
    /\ \E file \in 0..MaxFiles :
         fileLoads' = IF file # 0 THEN fileLoads \cup {file} ELSE fileLoads
    /\ videoFile' = 0
    /\ analysisResult' = NoAnalysis
    /\ error' = NULL
    /\ srtFile' = NoSrt
    /\ preview' = [preview EXCEPT !.activeSubtitle = 0]
    /\ UNCHANGED <<isRendering, renderProgress, hasRVFC, sess, lastCall,
                   samplerVars, isLoading, useDynamicStyling, sub, parse,
                   wav, comp, enc>>

\* videoElement.onloadedmetadata of handleFileChange (lines 158-166).
\* short: videoElement.duration < 30.
videoMetadataLoaded ==
    /\ \E file \in fileLoads, short \in BOOLEAN :
         /\ fileLoads' = fileLoads \ {file}
         /\ IF short
            THEN error' = "tooShort" /\ UNCHANGED videoFile
            ELSE videoFile' = file /\ UNCHANGED error
    /\ UNCHANGED <<analysisResult, isRendering, renderProgress, hasRVFC,
                   sess, lastCall, samplerVars, submitVars, parse, wav,
                   comp, preview, enc>>

\* videoElement.onerror of handleFileChange (lines 168-171)
videoLoadError ==
    /\ \E file \in fileLoads : fileLoads' = fileLoads \ {file}
    /\ error' = "load"
    /\ UNCHANGED <<videoFile, analysisResult, isRendering, renderProgress,
                   hasRVFC, sess, lastCall, samplerVars, submitVars, parse,
                   wav, comp, preview, enc>>

\* The video input and the analysis of a video without an SRT file.
FileNext ==
    \/ handleFileChange
    \/ videoMetadataLoaded
    \/ videoLoadError
    \/ handleSubmit
    \/ audioSettled
    \/ framesSettled
    \/ analysisSettled
    \/ oncanplay
    \/ seekedListener
    \/ samplerOnerror

FileInit == SubmitInit

FileSpec == FileInit /\ [][FileNext]_vars

\* ------------------------------------------------------------ vocabulary
Terminal == {"Done", "Failed", "Cancelled"}

Rank(phase) ==
    CASE phase = "Idle" -> 0
      [] phase = "Seeking" -> 1
      [] phase = "Recording" -> 2
      [] phase = "Finalizing" -> 3
      [] OTHER -> 4

\* Every resource the attempt acquired has been released.
Released(r) ==
    /\ r.videoElement # "inDom"
    /\ r.videoUrl # "live"
    /\ r.audioCtx \notin {"suspended", "running"}
    /\ r.source = "connected" => r.audioCtx = "closed"
    /\ r.stream # "live"
    /\ r.recorder \notin {"recording", "flushing", "stopping"}
    /\ ~r.frameCb

Active(r) == r.phase \in {"Seeking", "Recording", "Finalizing"}

NonDecreasing(q) == \A j \in 1..(Len(q) - 1) : q[j] <= q[j + 1]

\* ---------------------------------------------------------------- claims

\* C1: when a render attempt has ended (Done or Failed, whichever exit path
\* it took), every resource it acquired has been released: the video
\* element and its object URL, the audio context and source node, the
\* capture stream, the MediaRecorder and the pending frame callback.
C1_Original ==
    \A s \in Sessions :
        sess[s].phase \in Terminal /\ sess[s].pc # "gone"
            => Released(sess[s])

\* C2: once playback of a render attempt has started, the attempt eventually
\* reaches a terminal state with the rendering flag reset (fair delivery of
\* callbacks assumed).
C2_Original ==
    \A s \in Sessions :
        sess[s].playing ~> (sess[s].phase \in Terminal /\ ~isRendering)

C4_Original ==
    [][/\ Cardinality({s \in Sessions : Active(sess'[s])}) <= 1
       /\ \A s \in Sessions :
            handleDownload(s) /\ isRendering =>
                sess' = sess /\ error' = "busy"]_vars

\* C5: when a render step observes the cancellation (it returns at its
\* first guard), no further frame is scheduled and the session is cleaned
\* up: every resource released, cleanup run exactly once, nothing
\* delivered.
C5_Original ==
    \A s \in Sessions :
        sess[s].observedStop =>
            /\ ~sess[s].frameCb
            /\ sess[s].cleanups = 1
            /\ Released(sess[s])
            /\ sess[s].delivered = 0

\* C6: every render step made during Recording either reports a progress of
\* at most 99 or stops the recorder; 100 is reported only by a session that
\* delivered a non-empty output and reported no error.
C6_Original ==
    [][\A s \in Sessions :
          /\ render(s) /\ sess[s].phase = "Recording" =>
               \/ /\ Len(sess'[s].emitted) = Len(sess[s].emitted) + 1
                  /\ renderProgress' <= 99
               \/ sess'[s].phase = "Finalizing"
          /\ (sess'[s].emitted # <<>>
                /\ sess'[s].emitted[Len(sess'[s].emitted)] = 100) =>
               /\ sess'[s].delivered > 0
               /\ sess'[s].errors = {}]_vars

\* C8: once onstop has run, a session whose blob is empty has reported the
\* empty-output error, has triggered no download, has not reported 100 and
\* has run cleanup; a session that received a non-empty chunk has triggered
\* the download.
C8_EmptyOutput ==
    \A s \in Sessions :
        sess[s].recorder = "stopped" =>
            IF BlobSize(sess[s].chunks) = 0
            THEN /\ "empty" \in sess[s].errors
                 /\ sess[s].delivered = 0
                 /\ ~sess[s].finalizeTimer
                 /\ \A j \in 1..Len(sess[s].emitted) :
                        sess[s].emitted[j] # 100
                 /\ sess[s].cleanups >= 1
            ELSE sess[s].delivered = 1

\* C8 witness: onstop has run on an empty blob.
C8_Witness ==
    \E s \in Sessions :
        /\ sess[s].recorder = "stopped"
        /\ sess[s].chunks = <<>>
        /\ "empty" \in sess[s].errors

\* C9: a session whose play() was rejected is Failed with the error
\* reported, and never delivers an output.
C9_Original ==
    \A s \in Sessions :
        "play" \in sess[s].errors => sess[s].delivered = 0

\* C7: every value a render session passes to setRenderProgress and every
\* value a sampling run passes to onProgress lies in [0, 100], and each
\* sequence is non-decreasing; a step that writes renderProgress is a step
\* of a render session writing its own value and leaves the sampling stream
\* alone, and the other way round.
C7_Range ==
    /\ \A s \in Sessions :
         /\ \A j \in 1..Len(sess[s].emitted) : sess[s].emitted[j] \in 0..100
         /\ NonDecreasing(sess[s].emitted)
    /\ \A j \in 1..Len(smp.emitted) :
         smp.emitted[j] \in 0..(100 * smp.frameCount)
    /\ NonDecreasing(smp.emitted)
    /\ renderProgress \in 0..100
    /\ progressMessage.percent \in 0..100

C7_Separate ==
    /\ renderProgress' # renderProgress =>
         /\ UNCHANGED <<samplerVars, submitVars, funVars>>
         /\ \E s \in Sessions :
              /\ sess'[s].emitted # <<>>
              /\ sess'[s].emitted # sess[s].emitted
              /\ renderProgress' = sess'[s].emitted[Len(sess'[s].emitted)]
    /\ progressMessage' # progressMessage =>
         /\ UNCHANGED <<renderProgress, sess>>
         /\ \/ smp'.emitted = <<>> /\ progressMessage'.percent = 0
            \/ /\ smp'.emitted # <<>>
               /\ progressMessage'.percent =
                    roundedProgress(smp'.emitted[Len(smp'.emitted)],
                                    smp'.frameCount)

C7_ProgressStreams == []C7_Range /\ [][C7_Separate]_vars

\* C7 witness: a render session has reported 0 and then 100, and a sampling
\* run has reported two values.
C7_Witness ==
    /\ \E s \in Sessions : sess[s].emitted = <<0, 100>>
    /\ Len(smp.emitted) >= 2

\* A render session and a sampling run side by side, with fair delivery.
PipelineFairSpec ==
    /\ PipelineSpec
    /\ WF_vars(oncanplay)
    /\ \A s \in Sessions :
         /\ WF_vars(seekFallback(s))
         /\ WF_vars(onResumed(s))
         /\ WF_vars(playTimerFires(s))
         /\ WF_vars(playResolved(s) \/ playRejected(s))
         /\ WF_vars(render(s))
         /\ WF_vars(ondataavailable(s))
         /\ WF_vars(onstop(s))
         /\ WF_vars(finalizeTimerFires(s))

\* C10: every seek wait, of a render session and of the sampler, ends, also
\* when 'seeked' is never delivered.
C10_Original ==
    /\ \A s \in Sessions :
         sess[s].pc = "awaitSeek" ~> sess[s].pc # "awaitSeek"
    /\ smp.pc = "awaitSeek" ~> smp.pc # "awaitSeek"

\* ------------------------------------------------- claims on the analysis
\* What the specification asks of an analysis response.
ValidResponse(response, srtSupplied) ==
    /\ response.kind = "object"
    /\ response.startTime.num
    /\ response.endTime.num
    /\ response.endTime.v > response.startTime.v
    /\ ~srtSupplied => response.subtitles.kind = "array"

\* C11: an analysis response is accepted as the clip window only if
\* startTime and endTime are numbers with endTime > startTime and, when no
\* subtitle file was supplied, captions is a list; every other response
\* fails with an invalid-response error and leaves the stored analysis
\* result null.
C11_Original ==
    [][ ( /\ sub.pc = "awaitAnalysis"
          /\ sub'.pc # "awaitAnalysis"
          /\ sub'.response.kind # "rejected"
          /\ ~ValidResponse(sub'.response, sub.srtFile.present) )
        => /\ sub'.pc = "failed"
           /\ error' \in {"invalid", "json"}
           /\ ~analysisResult'.present ]_vars

\* C12: whenever a subtitle file has been supplied for an analysis, the
\* captions of the resulting clip window are exactly the captions parsed
\* from that file, none of them carries a fontSize or position field, and
\* the dynamic-styling flag sent to the analysis collaborator is false.
C12_Original ==
    sub.srtFile.present =>
        /\ sub.apiCalled => ~sub.flagSent
        /\ sub.pc = "done" =>
             /\ analysisResult.subtitles = parseSrt(sub.srtFile.text)
             /\ \A j \in 1..Len(analysisResult.subtitles) :
                  /\ analysisResult.subtitles[j].fontSize = <<>>
                  /\ analysisResult.subtitles[j].position = <<>>

\* The blocks a reader of SRT sees: the lines between blank lines.
RECURSIVE groupLines(_, _)
groupLines(lines, cur) ==
    IF lines = <<>>
    THEN IF cur = <<>> THEN <<>> ELSE <<cur>>
    ELSE IF Head(lines) = <<>>
         THEN (IF cur = <<>> THEN <<>> ELSE <<cur>>)
                \o groupLines(Tail(lines), <<>>)
         ELSE groupLines(Tail(lines), Append(cur, Head(lines)))

\* The caption of a block that has an index line, a matching timestamp
\* line and text that is not empty; nothing for any other block.
ExpectedOfBlock(g) ==
    IF Len(g) >= 3 /\ timeMatch(g[2])
          /\ trim(joinLines(SubSeq(g, 3, Len(g)))) # <<>>
    THEN << Caption(trim(joinLines(SubSeq(g, 3, Len(g)))),
                    (g[2][1].from.h * 3600 + g[2][1].from.m * 60
                       + g[2][1].from.s) * 1000 + g[2][1].from.ms,
                    (g[2][1].to.h * 3600 + g[2][1].to.m * 60
                       + g[2][1].to.s) * 1000 + g[2][1].to.ms) >>
    ELSE <<>>

RECURSIVE ExpectedOfBlocks(_)
ExpectedOfBlocks(gs) ==
    IF gs = <<>> THEN <<>>
    ELSE ExpectedOfBlock(Head(gs)) \o ExpectedOfBlocks(Tail(gs))

ExpectedCaptions(srtText) ==
    ExpectedOfBlocks(groupLines(splitLines(srtText, <<>>), <<>>))

\* C13: parseSrt returns, in block order, exactly one caption for each
\* blank-line-delimited block that has an index line, a timestamp line
\* matching the pattern and non-empty text, with start and end computed as
\* h*3600 + m*60 + s + ms/1000 and the text lines joined by one space; a
\* block that fails the pattern or has empty text yields no caption and
\* does not keep the blocks after it from being parsed.
C13_Original ==
    parse.pc = "returned" =>
        parse.subtitles = ExpectedCaptions(parse.srtText)

\* C14: every caption list held by a clip window is ordered by
\* non-decreasing start time, and every caption in it has start < end.
C14_Original ==
    analysisResult.present =>
        /\ \A j \in 1..(Len(analysisResult.subtitles) - 1) :
             analysisResult.subtitles[j].start
               <= analysisResult.subtitles[j + 1].start
        /\ \A j \in 1..Len(analysisResult.subtitles) :
             analysisResult.subtitles[j].start
               < analysisResult.subtitles[j].end

\* --------------------------------------------------- claims on the sampler
\* C15: for every frameCount > 0 and duration D > 0, extractVideoFrames
\* seeks exactly to the timestamps i * D / frameCount, i = 0..frameCount-1,
\* in increasing order, never seeks to a timestamp >= D and returns at
\* most frameCount frames.  (seeks holds the timestamps times frameCount.)
C15_SeekTimestamps ==
    /\ \A j \in 1..Len(smp.seeks) :
         /\ smp.seeks[j] = (j - 1) * smp.duration
         /\ smp.seeks[j] < smp.duration * smp.frameCount
    /\ \A j \in 1..(Len(smp.seeks) - 1) : smp.seeks[j] < smp.seeks[j + 1]
    /\ Len(smp.seeks) <= smp.frameCount
    /\ Len(smp.frames) <= smp.frameCount
    /\ smp.pc = "resolved" => Len(smp.seeks) = smp.frameCount

C15_Witness ==
    /\ smp.pc = "resolved"
    /\ smp.frameCount = 2
    /\ smp.duration > 1
    /\ Len(smp.frames) = 2

\* C16: a frame whose encoded payload is near-empty is left out of the
\* result but the operation still succeeds, and the progress callback is
\* invoked exactly once after every index i, skipped or kept, with
\* (i + 1) / frameCount * 100, so that the last progress value of a
\* completed run is 100.  (emitted holds the values times frameCount.)
C16_State ==
    /\ smp.pc = "awaitSeek" => Len(smp.emitted) = smp.i
    /\ smp.pc = "resolved" =>
         /\ Len(smp.emitted) = smp.frameCount
         /\ smp.emitted[smp.frameCount] = 100 * smp.frameCount
    /\ \A j \in 1..Len(smp.emitted) : smp.emitted[j] = j * 100
    /\ \A i \in 0..(Len(smp.emitted) - 1) :
         (i \notin smp.warned)
           <=> (\E k \in 1..Len(smp.frames) : smp.frames[k] = i)

C16_Step ==
    smp'.warned # smp.warned /\ smp'.warned # {}
        => smp'.pc \in {"awaitSeek", "resolved"}

C16_SkipAndProgress == []C16_State /\ [][C16_Step]_vars

C16_Witness ==
    /\ smp.pc = "resolved"
    /\ smp.frameCount = 2
    /\ smp.warned = {0}
    /\ smp.frames = <<1>>

\* C17: extractVideoFrames releases the object URL it created on every
\* path on which it settles: success, missing canvas context,
\* undeterminable or non-finite duration, and media load error.
C17_Original ==
    smp.pc \in {"resolved", "rejected"} => smp.url = "revoked"

\* C18: a failure of audio extraction yields "no audio" (null) and the
\* analysis still proceeds with frames only, whereas a failure of frame
\* extraction aborts the step: the analysis collaborator is not called, an
\* error is reported and no analysis result is stored; in both cases the
\* loading flag is reset when the step ends.
C18_Step ==
    /\ (sub.pc = "awaitAudio" /\ sub'.pc # "awaitAudio")
         => /\ sub'.pc = "awaitFrames"
            /\ sub'.audioFailed <=> sub'.audioData = "null"
    /\ (sub.pc = "awaitFrames" /\ sub'.pc # "awaitFrames")
         => IF smp.pc = "resolved"
            THEN sub'.pc = "awaitAnalysis" /\ sub'.apiCalled
            ELSE /\ sub'.pc = "failed"
                 /\ ~sub'.apiCalled
                 /\ error' # NULL
                 /\ ~analysisResult'.present
    /\ (sub'.pc # sub.pc /\ sub'.pc \in {"done", "failed"})
         => ~isLoading'

C18_Preparation == [][C18_Step]_vars

C18_Witness ==
    /\ sub.pc = "failed"
    /\ sub.failedAt = "frames"
    /\ sub.audioFailed
    /\ sub.audioData = "null"
    /\ ~isLoading

C20_HeaderRoundTrip ==
    wav.pc = "parsed" =>
        /\ Len(wav.header) = 44
        /\ wav.parsed.dataSize = 2 * wav.samples
        /\ wav.parsed.sampleRate = wav.sampleRate
        /\ wav.parsed.numChannels = wav.numChannels
        /\ wav.parsed.bitDepth = 16
        /\ wav.parsed.riffSize = 36 + wav.parsed.dataSize
        /\ wav.parsed.byteRate = wav.sampleRate * wav.parsed.blockAlign
        /\ wav.parsed.blockAlign = wav.numChannels * 2

C20_Witness ==
    /\ wav.pc = "parsed"
    /\ wav.numChannels = 2
    /\ wav.length > 0
    /\ wav.parsed.dataSize = 4 * wav.length

\* C30: for every channel count, the dataSize field of the encoded header
\* equals the number of sample frames of the buffer times blockAlign.
C30_Original ==
    wav.pc = "parsed" =>
        wav.parsed.dataSize = wav.length * wav.parsed.blockAlign

\* ------------------------------------------------------ claims on the fade
\* The opacity a linear ramp gives at distance d (in ticks) from the
\* boundary where it is 0, in units of 1/AlphaOne.
C21_Ramp(d) == (d * AlphaOne) \div FADE_DURATION

C25_CaptureAfterOwnSeek ==
    /\ Len(smp.captures) <= Len(smp.seeks)
    /\ \A k \in DOMAIN smp.captures :
         /\ smp.captures[k].index = k - 1
         /\ smp.captures[k].signal = smp.captures[k].index
         /\ smp.seeks[k] = smp.captures[k].index * smp.duration
    /\ \A k \in DOMAIN smp.frames :
         \E c \in DOMAIN smp.captures :
            smp.captures[c].index = smp.frames[k]

C25_Witness ==
    /\ smp.pc = "resolved"
    /\ smp.frameCount >= 2
    /\ Len(smp.captures) = smp.frameCount
    /\ Len(smp.frames) = smp.frameCount

\* C28: the sampling loop is entered at most once per call however often
\* can-play comes, and the promise is settled at most once, a resolution
\* carrying the frames of that single pass (no index twice, in loop order).
C28_SinglePass ==
    /\ smp.passes <= 1
    /\ smp.settles <= 1
    /\ (smp.pc \in {"resolved", "rejected"}) <=> (smp.settles = 1)
    /\ smp.pc = "resolved" =>
         /\ smp.passes = 1
         /\ Len(smp.captures) = smp.frameCount
         /\ \A j, k \in DOMAIN smp.frames :
              j < k => smp.frames[j] < smp.frames[k]

C28_Witness ==
    /\ smp.pc = "awaitSeek"
    /\ smp.ignored
    /\ smp.passes = 1
    /\ smp.i >= 1
    /\ Len(smp.frames) >= 1

\* ------------------------------------------- claims on the audio extraction
\* C29: extractAudioFromVideo leaves no audio decode context open, on the
\* path that returns the WAV and on the paths that fail and return null.
C29_Original ==
    sub.audioData # "unset" => sub.audioContext # "open"

\* ------------------------------------------------------ claims on cleanup
\* What cleanup() acts on: the frame callback, the video element and its
\* playback and source, the audio source node, the audio context and the
\* object URL.
C26_Managed(r) ==
    <<r.frameCb, r.playing, r.hasSrc, r.videoElement, r.source, r.audioCtx,
      r.videoUrl>>

\* Everything cleanup() acts on is released.
C26_Released(r) ==
    /\ r.animationFrameId # 0 => ~r.frameCb
    /\ ~r.playing
    /\ ~r.hasSrc
    /\ r.videoElement \in {NULL, "removed"}
    /\ r.source \in {NULL, "disconnected"}
    /\ r.audioCtx \in {NULL, "closed"}
    /\ r.videoUrl \in {NULL, "revoked"}

C26_State ==
    \A s \in Sessions : sess[s].cleanups >= 1 => C26_Released(sess[s])

C26_Step ==
    \A s \in Sessions :
        (sess[s].cleanups >= 1 /\ sess'[s].cleanups > sess[s].cleanups) =>
            /\ C26_Managed(sess'[s]) = C26_Managed(sess[s])
            /\ isRendering' = FALSE

\* C26: a call of cleanup() after it has already run is a no-op: once it
\* has run everything it acts on stays released, a further call changes
\* none of it, and the rendering flag is false after it as after the first.
C26_DoubleCleanup == []C26_State /\ [][C26_Step]_vars

C26_Witness ==
    \E s \in Sessions :
        /\ sess[s].cleanups >= 2
        /\ sess[s].audioCtx = "closed"
        /\ sess[s].videoUrl = "revoked"
        /\ isRendering = FALSE

\* ------------------------------------------------ claims on the format
\* The candidates the environment reports as supported.
C24_Supported == { k \in DOMAIN mimeTypes : mimeTypes[k] \in enc.supported }

C24_WitnessNone ==
    /\ enc.pc = "failed"
    /\ C24_Supported = {}
    /\ enc.supported # {}
    /\ enc.error = "NotSupportedError"

\* ---------------------------------------------------- claims on captions
\* Caption j of the list holds the absolute source time t in its closed
\* interval.
C22_Holds(subtitles, j, t) ==
    subtitles[j].start <= t /\ t <= subtitles[j].end

\* j is the active caption at t: the first of the list that holds t, or 0
\* when none does.
C22_IsActive(subtitles, j, t) ==
    IF j = 0
    THEN \A k \in DOMAIN subtitles : ~C22_Holds(subtitles, k, t)
    ELSE /\ j \in DOMAIN subtitles
         /\ C22_Holds(subtitles, j, t)
         /\ \A k \in 1..(j - 1) : ~C22_Holds(subtitles, k, t)

\* C22: at every sampled source time t the active caption, in the preview
\* and in the render loop, is the first caption in list order whose closed
\* interval [start, end] holds t, also when several overlap; when none
\* holds t there is no caption.
C22_FirstContaining ==
    /\ preview.looked =>
         C22_IsActive(analysisResult.subtitles, preview.activeSubtitle,
                      preview.lookupTime)
    /\ preview.drawn.done =>
         C22_IsActive(analysisResult.subtitles, preview.drawn.currentSub,
                      preview.drawn.time)

C22_Witness ==
    /\ preview.looked /\ preview.drawn.done
    /\ preview.activeSubtitle = 1
    /\ C22_Holds(analysisResult.subtitles, 2, preview.lookupTime)
    /\ preview.drawn.currentSub = 1
    /\ C22_Holds(analysisResult.subtitles, 2, preview.drawn.time)

\* The caption's own value of a style field when it has one, the static
\* setting otherwise.
C23_Effective(field, static) == IF field # <<>> THEN field[1] ELSE static

\* C23: wherever a caption is displayed, in the render loop and in the
\* preview, its font size and position are the caption's own when the field
\* is present and the static setting otherwise.
C23_Original ==
    /\ (preview.drawn.done /\ preview.drawn.currentSub # 0) =>
         LET s == analysisResult.subtitles[preview.drawn.currentSub]
         IN  /\ preview.drawn.fontSize
                  = C23_Effective(s.fontSize, preview.fontSize)
             /\ preview.drawn.position
                  = C23_Effective(s.position, preview.subtitlePosition)
    /\ preview.activeSubtitle # 0 =>
         LET s == analysisResult.subtitles[preview.activeSubtitle]
         IN  /\ currentPreviewFontSize(useDynamicStyling,
                                       analysisResult.subtitles,
                                       preview.activeSubtitle,
                                       preview.fontSize)
                  = C23_Effective(s.fontSize, preview.fontSize)
             /\ currentPreviewPosition(useDynamicStyling,
                                       analysisResult.subtitles,
                                       preview.activeSubtitle,
                                       preview.subtitlePosition)
                  = C23_Effective(s.position, preview.subtitlePosition)

\* --------------------------------------------- claims on the video choice
\* C27: the stored analysis result belongs to the selected video: it was
\* computed by a handleSubmit call made for the file that videoFile now
\* holds, also when another file was chosen while that call was running.
C27_Original ==
    (analysisResult.present /\ videoFile # 0) => sub.videoFile = videoFile

====
